---- MODULE Spec2Model ----
(***************************************************************************)
(* Model of translator_in_real_time.py: the capture thread (record_audio), *)
(* the Tk main thread running the button handlers (start_recording,        *)
(* stop_recording, on_closing) and main()'s cleanup, and one               *)
(* process_audio thread per dispatched recording, all sharing the          *)
(* non-reentrant threading.Lock record_lock.                               *)
(***************************************************************************)
EXTENDS Integers, Sequences, FiniteSets, TLC

\* ------------------------------------------------------------------ bounds
\* Number of recordings a run may begin (start_recording passing its check).
MaxSessions == 2
\* Number of chunks the device delivers over a run.
MaxReads == 2
\* Frames per buffer; the source reads CHUNK = 1024 frames at a time.
ChunkFrames == 1

\* --------------------------------------------------------- audio constants
CHANNELS == 1
RATE == 16000
\* p.get_sample_size(pyaudio.paInt16)
SampleWidth == 2

VARIABLES
    is_recording,          \* global is_recording
    frames,                \* global frames: list of chunks (byte sequences)
    stream,                \* global stream: None, or the handle of a device
    recording_start_time,  \* global recording_start_time
    exit_event,            \* exit_event.is_set()
    record_lock,           \* the thread holding record_lock, or NoThread
    pc,                    \* position of the main and the capture thread
    ret,                   \* where a thread's stop_recording returns to
    device,                \* state of every stream p.open returned
    result,                \* what the last operation of each thread reported
    status,                \* text of status_label
    duration,              \* the duration stop_recording last showed
    procs,                 \* the process_audio threads, in spawn order
    session,               \* number of recordings begun
    nread,                 \* number of chunks the device delivered
    captured,              \* per recording, the chunks stream.read returned
    encoded                \* the frame lists written to a WAV buffer

vars == <<is_recording, frames, stream, recording_start_time, exit_event,
          record_lock, pc, ret, device, result, status, duration,
          procs, session, nread, captured, encoded>>

shared == <<is_recording, frames, stream, recording_start_time>>
history == <<session, nread, captured, encoded>>

None == 0
NoThread == "none"
Threads == {"main", "capture"}

\* ------------------------------------------------------------- WAV encoding
RECURSIVE Join(_)
\* b''.join(frames)
Join(fs) == IF fs = <<>> THEN <<>> ELSE Head(fs) \o Join(Tail(fs))

\* struct '<L' and '<H': little-endian unsigned integers
LE16(n) == <<n % 256, (n \div 256) % 256>>
LE32(n) == <<n % 256, (n \div 256) % 256, (n \div 65536) % 256,
             (n \div 16777216) % 256>>

RIFF == <<82, 73, 70, 70>>
WAVE == <<87, 65, 86, 69>>
FMT == <<102, 109, 116, 32>>
DATA == <<100, 97, 116, 97>>

\* The header wave.Wave_write writes in front of the payload.
WavHeader(datalen) ==
    RIFF \o LE32(36 + datalen) \o WAVE \o FMT \o LE32(16) \o LE16(1)
         \o LE16(CHANNELS) \o LE32(RATE)
         \o LE32(CHANNELS * RATE * SampleWidth)
         \o LE16(CHANNELS * SampleWidth) \o LE16(SampleWidth * 8)
         \o DATA \o LE32(datalen)

\* Encode leaving the header as first written, its sizes never patched.
Encode_UnpatchedHeader(fs) == WavHeader(0) \o Join(fs)

\* The bytes of audio_buffer after the wave.open(audio_buffer, "wb") block.
Encode(fs) == WavHeader(Len(Join(fs))) \o Join(fs)

\* The chunk the k-th successful stream.read returns: CHUNK frames of 16 bits.
Chunk(k) == [i \in 1..(ChunkFrames * CHANNELS * SampleWidth) |-> k]

\* ------------------------------------------------------------------ helpers
\* time.time(), in chunk periods: the clock advances as the device delivers.
Now == nread

SetPc(t, v) == pc' = [pc EXCEPT ![t] = v]
Report(t, v) == result' = [result EXCEPT ![t] = v]

AllDone == \A i \in 1..Len(procs) : procs[i].pc = "done"
\* The interpreter lives until main() and every non-daemon thread have ended;
\* the daemon capture thread runs until then.
ProcessAlive == ~(pc["main"] = "exited" /\ AllDone)

\* Where stop_recording returns to on thread t.  On the capture thread the
\* call sits at the end of record_audio's `with record_lock:` block, after
\* which the loop sleeps and starts over.
ReturnPc(t) == IF t = "capture" THEN "c_top" ELSE ret[t]

\* ------------------------------------------------------------- WAV decoding
DEC16(b, i) == b[i] + 256 * b[i + 1]
DEC32(b, i) == b[i] + 256 * b[i + 1] + 65536 * b[i + 2] + 16777216 * b[i + 3]

\* What wave.open(audio_buffer, "rb") finds: the RIFF/WAVE signature, the
\* fmt chunk (PCM), the data chunk; getnframes() is the data size divided by
\* the frame size.
WavMalformed(b) ==
    \/ Len(b) < 44
    \/ SubSeq(b, 1, 4) # RIFF
    \/ SubSeq(b, 9, 12) # WAVE
    \/ SubSeq(b, 13, 16) # FMT
    \/ DEC16(b, 21) # 1
    \/ DEC16(b, 23) = 0
    \/ DEC16(b, 35) = 0
    \/ SubSeq(b, 37, 40) # DATA

Parse(b) ==
    LET nch == DEC16(b, 23)
        sw == (DEC16(b, 35) + 7) \div 8
        datalen == DEC32(b, 41)
    IN  [nchannels |-> nch,
         sampwidth |-> sw,
         framerate |-> DEC32(b, 25),
         nframes |-> datalen \div (nch * sw),
         payload |-> SubSeq(b, 45, Len(b))]

\* The positions from which a thread's next step reads or writes
\* is_recording, frames or stream: the bodies of the with blocks of
\* start_recording, stop_recording, record_audio and main, and the WAV
\* writing of stop_recording, which joins frames after its with block.
AccessPoints ==
    {"start_check", "start_open", "stop_check", "stop_device", "stop_encode",
     "c_locked", "finally_close"}

Init ==
    /\ is_recording = FALSE
    /\ frames = <<>>
    /\ stream = None
    /\ recording_start_time = 0
    /\ exit_event = FALSE
    /\ record_lock = NoThread
    /\ pc = [main |-> "mainloop", capture |-> "c_top"]
    /\ ret = [main |-> "mainloop", capture |-> "c_top"]
    /\ device = <<>>
    /\ result = [main |-> "none", capture |-> "none"]
    /\ status = "Idle"
    /\ duration = 0
    /\ procs = <<>>
    /\ session = 0
    /\ nread = 0
    /\ captured = <<>>
    /\ encoded = <<>>

\* ---------------------------------------------------------- start_recording
\* The Start Recording button: the handler runs up to `with record_lock:`.
StartClick ==
    /\ pc["main"] = "mainloop"
    /\ session < MaxSessions \/ is_recording
    /\ SetPc("main", "start_wait")
    /\ UNCHANGED <<shared, exit_event, record_lock, ret, device, result,
                   status, duration, procs, history>>

\* `with record_lock:` is entered once no thread holds the lock.
StartAcquire ==
    /\ pc["main"] = "start_wait"
    /\ record_lock = NoThread
    /\ record_lock' = "main"
    /\ SetPc("main", "start_check")
    /\ UNCHANGED <<shared, exit_event, ret, device, result, status,
                   duration, procs, history>>

\* StartAlready warning and then starting over instead of returning.
StartAlready_Restarts ==
    /\ pc["main"] = "start_check"
    /\ is_recording
    /\ Report("main", "AlreadyRecording")
    /\ frames' = <<>>
    /\ record_lock' = NoThread
    /\ SetPc("main", "mainloop")
    /\ UNCHANGED <<is_recording, stream, recording_start_time, exit_event,
                   ret, device, status, duration, procs, history>>

\* `if is_recording:` warn and return, leaving the with block.
StartAlready ==
    /\ pc["main"] = "start_check"
    /\ is_recording
    /\ Report("main", "AlreadyRecording")
    /\ record_lock' = NoThread
    /\ SetPc("main", "mainloop")
    /\ UNCHANGED <<shared, exit_event, ret, device, status, duration,
                   procs, history>>

\* StartBegin without `frames = []`.
StartBegin_KeepFrames ==
    /\ pc["main"] = "start_check"
    /\ ~is_recording
    /\ is_recording' = TRUE
    /\ session' = session + 1
    /\ captured' = Append(captured, <<>>)
    /\ SetPc("main", "start_open")
    /\ UNCHANGED <<frames, stream, recording_start_time, exit_event,
                   record_lock, ret, device, result, status, duration, procs,
                   nread, encoded>>

\* is_recording = True; frames = []
StartBegin ==
    /\ pc["main"] = "start_check"
    /\ ~is_recording
    /\ is_recording' = TRUE
    /\ frames' = <<>>
    /\ session' = session + 1
    /\ captured' = Append(captured, <<>>)
    /\ SetPc("main", "start_open")
    /\ UNCHANGED <<stream, recording_start_time, exit_event, record_lock, ret,
                   device, result, status, duration, procs, nread,
                   encoded>>

\* p.open(...) returns a stream; the start time and the status are set.
StartOpenOk ==
    /\ pc["main"] = "start_open"
    /\ device' = Append(device, "open")
    /\ stream' = Len(device) + 1
    /\ recording_start_time' = Now
    /\ status' = "Recording..."
    /\ Report("main", "Started")
    /\ record_lock' = NoThread
    /\ SetPc("main", "mainloop")
    /\ UNCHANGED <<is_recording, frames, exit_event, ret, duration,
                   procs, history>>

\* StartOpenFail without `is_recording = False`.
StartOpenFail_StaysRecording ==
    /\ pc["main"] = "start_open"
    /\ Report("main", "DeviceError")
    /\ record_lock' = NoThread
    /\ SetPc("main", "mainloop")
    /\ UNCHANGED <<shared, exit_event, ret, device, status, duration, procs,
                   history>>

\* p.open(...) raises: the except branch reports and resets is_recording.
StartOpenFail ==
    /\ pc["main"] = "start_open"
    /\ is_recording' = FALSE
    /\ Report("main", "DeviceError")
    /\ record_lock' = NoThread
    /\ SetPc("main", "mainloop")
    /\ UNCHANGED <<frames, stream, recording_start_time, exit_event, ret,
                   device, status, duration, procs, history>>

\* ----------------------------------------------------------- stop_recording
\* The Stop Recording button: the handler runs up to `with record_lock:`.
StopClick ==
    /\ pc["main"] = "mainloop"
    /\ SetPc("main", "stop_wait")
    /\ ret' = [ret EXCEPT !["main"] = "mainloop"]
    /\ UNCHANGED <<shared, exit_event, record_lock, device, result,
                   status, duration, procs, history>>

\* `with record_lock:` in stop_recording, on whichever thread runs it.  The
\* lock is a threading.Lock: a thread that already holds it waits like any
\* other.
StopAcquire(t) ==
    /\ pc[t] = "stop_wait"
    /\ ProcessAlive
    /\ record_lock = NoThread
    /\ record_lock' = t
    /\ SetPc(t, "stop_check")
    /\ UNCHANGED <<shared, exit_event, ret, device, result, status,
                   duration, procs, history>>

\* StopNotRecording warning and then going on instead of returning.
StopNotRecording_FallsThrough(t) ==
    /\ pc[t] = "stop_check"
    /\ ~is_recording
    /\ Report(t, "NotRecording")
    /\ SetPc(t, "stop_device")
    /\ UNCHANGED <<shared, exit_event, record_lock, ret, device, status,
                   duration, procs, history>>

\* `if not is_recording:` warn and return, leaving the with block.
StopNotRecording(t) ==
    /\ pc[t] = "stop_check"
    /\ ~is_recording
    /\ Report(t, "NotRecording")
    /\ record_lock' = NoThread
    /\ SetPc(t, ReturnPc(t))
    /\ UNCHANGED <<shared, exit_event, ret, device, status, duration,
                   procs, history>>

\* is_recording = False
StopBegin(t) ==
    /\ pc[t] = "stop_check"
    /\ is_recording
    /\ is_recording' = FALSE
    /\ SetPc(t, "stop_device")
    /\ UNCHANGED <<frames, stream, recording_start_time, exit_event,
                   record_lock, ret, device, result, status, duration,
                   procs, history>>

\* StopDeviceOk without the finally block's `stream = None`.
StopDeviceOk_KeepsStream(t) ==
    /\ pc[t] = "stop_device"
    /\ stream # None
    /\ device[stream] = "open"
    /\ device' = [device EXCEPT ![stream] = "closed"]
    /\ duration' = Now - recording_start_time
    /\ status' = "Recorded"
    /\ Report(t, "Stopped")
    /\ record_lock' = NoThread
    /\ SetPc(t, "stop_encode")
    /\ UNCHANGED <<shared, exit_event, ret, procs, history>>

\* stream.stop_stream(); stream.close(); the duration is shown; finally
\* stream = None; the with block ends and the function goes on to encode.
StopDeviceOk(t) ==
    /\ pc[t] = "stop_device"
    /\ stream # None
    /\ device[stream] = "open"
    /\ device' = [device EXCEPT ![stream] = "closed"]
    /\ duration' = Now - recording_start_time
    /\ status' = "Recorded"
    /\ Report(t, "Stopped")
    /\ stream' = None
    /\ record_lock' = NoThread
    /\ SetPc(t, "stop_encode")
    /\ UNCHANGED <<is_recording, frames, recording_start_time, exit_event,
                   ret, procs, history>>

\* StopDeviceFail without the finally block's `stream = None`.
StopDeviceFail_KeepsStream(t) ==
    /\ pc[t] = "stop_device"
    /\ \E stage \in {"stop_stream", "close"} :
          device' = IF stage = "close" /\ stream # None
                       /\ device[stream] = "open"
                    THEN [device EXCEPT ![stream] = "stopped"]
                    ELSE device
    /\ Report(t, "StopError")
    /\ record_lock' = NoThread
    /\ SetPc(t, ReturnPc(t))
    /\ UNCHANGED <<shared, exit_event, ret, status, duration, procs, history>>

\* stream.stop_stream() or stream.close() raises: the except branch reports
\* and returns; finally stream = None.
StopDeviceFail(t) ==
    /\ pc[t] = "stop_device"
    /\ \E stage \in {"stop_stream", "close"} :
          device' = IF stage = "close" /\ stream # None
                       /\ device[stream] = "open"
                    THEN [device EXCEPT ![stream] = "stopped"]
                    ELSE device
    /\ Report(t, "StopError")
    /\ stream' = None
    /\ record_lock' = NoThread
    /\ SetPc(t, ReturnPc(t))
    /\ UNCHANGED <<is_recording, frames, recording_start_time, exit_event,
                   ret, status, duration, procs, history>>

\* A new process_audio thread, about to run.
NewProc(s, audio, origin) ==
    [session |-> s, audio |-> audio, origin |-> origin, pc |-> "start",
     transcribeCalled |-> FALSE, translateCalled |-> FALSE,
     transcription |-> "none"]

\* StopEncode not starting a thread when called from on_closing.
StopEncode_SkipsOnClosing(t) ==
    /\ pc[t] = "stop_encode"
    /\ LET audio == Encode(frames)
       IN  /\ encoded' = Append(encoded, [session |-> session,
                                          frames |-> frames])
           /\ IF WavMalformed(audio)
              THEN /\ Report(t, "EncodingError")
                   /\ procs' = procs
              ELSE /\ result' = result
                   /\ procs' = IF ret[t] = "closing_exit" THEN procs
                               ELSE Append(procs,
                                           NewProc(session, audio, ret[t]))
    /\ record_lock' = IF t = "capture" THEN NoThread ELSE record_lock
    /\ SetPc(t, ReturnPc(t))
    /\ UNCHANGED <<shared, exit_event, ret, device, status, duration,
                   session, nread, captured>>

\* StopEncode emptying frames once they are written.
StopEncode_MovesFrames(t) ==
    /\ pc[t] = "stop_encode"
    /\ LET audio == Encode(frames)
       IN  /\ encoded' = Append(encoded, [session |-> session,
                                          frames |-> frames])
           /\ IF WavMalformed(audio)
              THEN /\ Report(t, "EncodingError")
                   /\ procs' = procs
              ELSE /\ result' = result
                   /\ procs' = Append(procs, NewProc(session, audio, ret[t]))
    /\ frames' = <<>>
    /\ record_lock' = IF t = "capture" THEN NoThread ELSE record_lock
    /\ SetPc(t, ReturnPc(t))
    /\ UNCHANGED <<is_recording, stream, recording_start_time, exit_event,
                   ret, device, status, duration, session, nread, captured>>

\* After the with block: the frames are written to a WAV buffer, the buffer
\* is read back, and a process_audio thread is started on it.
StopEncode(t) ==
    /\ pc[t] = "stop_encode"
    /\ LET audio == Encode(frames)
       IN  /\ encoded' = Append(encoded, [session |-> session,
                                          frames |-> frames])
           /\ IF WavMalformed(audio)
              THEN /\ Report(t, "EncodingError")
                   /\ procs' = procs
              ELSE /\ result' = result
                   /\ procs' = Append(procs, NewProc(session, audio, ret[t]))
    /\ record_lock' = IF t = "capture" THEN NoThread ELSE record_lock
    /\ SetPc(t, ReturnPc(t))
    /\ UNCHANGED <<shared, exit_event, ret, device, status, duration,
                   session, nread, captured>>

\* CaptureTop looping without looking at exit_event.
CaptureTop_IgnoresExit ==
    /\ pc["capture"] = "c_top"
    /\ ProcessAlive
    /\ SetPc("capture", "c_wait")
    /\ UNCHANGED <<shared, exit_event, record_lock, ret, device, result,
                   status, duration, procs, history>>

\* ------------------------------------------------------------- record_audio
\* `while not exit_event.is_set():` at the top of an iteration (the sleep
\* that ends the previous iteration is over).
CaptureTop ==
    /\ pc["capture"] = "c_top"
    /\ ProcessAlive
    /\ SetPc("capture", IF exit_event THEN "c_done" ELSE "c_wait")
    /\ UNCHANGED <<shared, exit_event, record_lock, ret, device, result,
                   status, duration, procs, history>>

\* `with record_lock:` in the loop.  Once the device has delivered MaxReads
\* chunks the thread is not scheduled while a read would be due.
CaptureAcquire ==
    /\ pc["capture"] = "c_wait"
    /\ ProcessAlive
    /\ record_lock = NoThread
    /\ nread < MaxReads \/ ~is_recording \/ stream = None
    /\ record_lock' = "capture"
    /\ SetPc("capture", "c_locked")
    /\ UNCHANGED <<shared, exit_event, ret, device, result, status,
                   duration, procs, history>>

\* `if is_recording and stream is not None:` stream.read returns a chunk,
\* which is appended; the with block ends.
CaptureRead ==
    /\ pc["capture"] = "c_locked"
    /\ ProcessAlive
    /\ is_recording /\ stream # None
    /\ device[stream] = "open"
    /\ nread < MaxReads
    /\ frames' = Append(frames, Chunk(nread + 1))
    /\ nread' = nread + 1
    /\ captured' = [captured EXCEPT ![session] = Append(@, Chunk(nread + 1))]
    /\ record_lock' = NoThread
    /\ SetPc("capture", "c_top")
    /\ UNCHANGED <<is_recording, stream, recording_start_time, exit_event,
                   ret, device, result, status, duration, procs,
                   session, encoded>>

\* stream.read raises: the except branch calls stop_recording(), still
\* inside the with block.
CaptureReadFail ==
    /\ pc["capture"] = "c_locked"
    /\ ProcessAlive
    /\ is_recording /\ stream # None
    /\ Report("capture", "ReadError")
    /\ SetPc("capture", "stop_wait")
    /\ UNCHANGED <<shared, exit_event, record_lock, ret, device, status,
                   duration, procs, history>>

\* The condition is false: the with block ends with nothing done.
CaptureSkip ==
    /\ pc["capture"] = "c_locked"
    /\ ProcessAlive
    /\ ~(is_recording /\ stream # None)
    /\ record_lock' = NoThread
    /\ SetPc("capture", "c_top")
    /\ UNCHANGED <<shared, exit_event, ret, device, result, status,
                   duration, procs, history>>

\* --------------------------------------------------------------- on_closing
\* The window is closed while nothing is recorded: exit_event.set();
\* root.destroy(), which ends root.mainloop().
CloseIdle ==
    /\ pc["main"] = "mainloop"
    /\ ~is_recording
    /\ exit_event' = TRUE
    /\ SetPc("main", "finally_wait")
    /\ UNCHANGED <<shared, record_lock, ret, device, result, status,
                   duration, procs, history>>

\* The window is closed while recording and the user confirms:
\* stop_recording() is called.
CloseConfirm ==
    /\ pc["main"] = "mainloop"
    /\ is_recording
    /\ ret' = [ret EXCEPT !["main"] = "closing_exit"]
    /\ SetPc("main", "stop_wait")
    /\ UNCHANGED <<shared, exit_event, record_lock, device, result,
                   status, duration, procs, history>>

\* CloseDecline going on to exit_event.set() instead of returning.
CloseDecline_SetsExit ==
    /\ pc["main"] = "mainloop"
    /\ is_recording
    /\ Report("main", "CloseDeclined")
    /\ exit_event' = TRUE
    /\ UNCHANGED <<shared, record_lock, pc, ret, device, status, duration,
                   procs, history>>

\* The window is closed while recording and the user declines: return.
CloseDecline ==
    /\ pc["main"] = "mainloop"
    /\ is_recording
    /\ Report("main", "CloseDeclined")
    /\ UNCHANGED <<shared, exit_event, record_lock, pc, ret, device, status,
                   duration, procs, history>>

\* After stop_recording() has returned: exit_event.set(); root.destroy().
ClosingExit ==
    /\ pc["main"] = "closing_exit"
    /\ exit_event' = TRUE
    /\ SetPc("main", "finally_wait")
    /\ UNCHANGED <<shared, record_lock, ret, device, result, status,
                   duration, procs, history>>

\* --------------------------------------------------------------------- main
\* root.mainloop() is left by a KeyboardInterrupt.
KeyboardInterrupt ==
    /\ pc["main"] = "mainloop"
    /\ Report("main", "KeyboardInterrupt")
    /\ SetPc("main", "finally_wait")
    /\ UNCHANGED <<shared, exit_event, record_lock, ret, device, status,
                   duration, procs, history>>

\* `with record_lock:` in the finally block.
FinallyAcquire ==
    /\ pc["main"] = "finally_wait"
    /\ record_lock = NoThread
    /\ record_lock' = "main"
    /\ SetPc("main", "finally_close")
    /\ UNCHANGED <<shared, exit_event, ret, device, result, status,
                   duration, procs, history>>

\* `if stream is not None:` stop and close it, printing any exception; the
\* with block ends; p.terminate(), which closes the streams still
\* registered with p (those never closed) until one of these closes fails.
FinallyCleanup ==
    /\ pc["main"] = "finally_close"
    /\ \E outcome \in {"ok", "stop_stream", "close"} :
          \E swept \in SUBSET (1..Len(device)) :
             LET own == IF stream = None \/ outcome = "stop_stream"
                        THEN device
                        ELSE IF device[stream] # "open" THEN device
                        ELSE [device EXCEPT ![stream] =
                                IF outcome = "ok" THEN "closed"
                                ELSE "stopped"]
             IN  device' = [h \in 1..Len(device) |->
                              IF h \in swept THEN "closed" ELSE own[h]]
    /\ record_lock' = NoThread
    /\ SetPc("main", "exited")
    /\ UNCHANGED <<shared, exit_event, ret, result, status, duration,
                   procs, history>>

\* ------------------------------------------------------------ process_audio
\* How a transcription request ends: it raises; it returns nothing usable
\* (no object, or one without a text); it returns an empty text; it returns
\* a text.
TranscriptionOutcomes == {"raise", "malformed", "empty", "text"}

\* A process_audio thread that has ended: it has printed its report, its
\* finally block has closed the buffer, and nothing of the run is left.
Ended(proc) ==
    [proc EXCEPT !.pc = "done", !.audio = <<>>, !.transcribeCalled = FALSE,
                 !.translateCalled = FALSE, !.transcription = "none"]

\* ProcBegin taking record_lock for the run.
ProcBegin_UnderLock(i) ==
    /\ procs[i].pc = "start"
    /\ record_lock = NoThread
    /\ record_lock' = "pipeline"
    /\ procs' = [procs EXCEPT ![i] =
                   IF @.audio = <<>>
                   THEN Ended(@)
                   ELSE [@ EXCEPT !.pc = "transcribing",
                                  !.transcribeCalled = TRUE]]
    /\ UNCHANGED <<shared, exit_event, pc, ret, device, result, status,
                   duration, history>>

\* audio_data = audio_buffer.getvalue(); an empty buffer is skipped;
\* otherwise the transcription request is sent.
ProcBegin(i) ==
    /\ procs[i].pc = "start"
    /\ procs' = [procs EXCEPT ![i] =
                   IF @.audio = <<>>
                   THEN Ended(@)
                   ELSE [@ EXCEPT !.pc = "transcribing",
                                  !.transcribeCalled = TRUE]]
    /\ UNCHANGED <<shared, exit_event, record_lock, pc, ret, device, result,
                   status, duration, history>>

\* ProcTranscribed taking record_lock for the translation request.
ProcTranscribed_UnderLock(i) ==
    /\ procs[i].pc = "transcribing"
    /\ record_lock = NoThread
    /\ record_lock' = "pipeline"
    /\ \E out \in TranscriptionOutcomes :
          procs' = [procs EXCEPT ![i] =
             IF out \in {"raise", "malformed"}
             THEN Ended(@)
             ELSE [@ EXCEPT !.pc = "translating", !.transcription = out,
                            !.translateCalled = TRUE]]
    /\ UNCHANGED <<shared, exit_event, pc, ret, device, result, status,
                   duration, history>>

\* The transcription request ends: it raised (outer except), returned
\* nothing usable (`not transcription or not hasattr(transcription,
\* 'text')`), or returned a text, which is passed to translate_text.
ProcTranscribed(i) ==
    /\ procs[i].pc = "transcribing"
    /\ \E out \in TranscriptionOutcomes :
          procs' = [procs EXCEPT ![i] =
             IF out \in {"raise", "malformed"}
             THEN Ended(@)
             ELSE [@ EXCEPT !.pc = "translating", !.transcription = out,
                            !.translateCalled = TRUE]]
    /\ UNCHANGED <<shared, exit_event, record_lock, pc, ret, device, result,
                   status, duration, history>>

\* translate_text returns the stripped reply, or None after an exception;
\* either way the reports are printed and the finally block ends the run.
ProcTranslated(i) ==
    /\ procs[i].pc = "translating"
    /\ procs' = [procs EXCEPT ![i] = Ended(@)]
    /\ UNCHANGED <<shared, exit_event, record_lock, pc, ret, device, result,
                   status, duration, history>>

\* ------------------------------------------------------------ specification
Next ==
    \/ StartClick
    \/ StartAcquire
    \/ StartAlready
    \/ StartBegin
    \/ StartOpenOk
    \/ StartOpenFail
    \/ StopClick
    \/ \E t \in Threads : StopAcquire(t)
    \/ \E t \in Threads : StopNotRecording(t)
    \/ \E t \in Threads : StopBegin(t)
    \/ \E t \in Threads : StopDeviceOk(t)
    \/ \E t \in Threads : StopDeviceFail(t)
    \/ \E t \in Threads : StopEncode(t)
    \/ CaptureTop
    \/ CaptureAcquire
    \/ CaptureRead
    \/ CaptureReadFail
    \/ CaptureSkip
    \/ CloseIdle
    \/ CloseConfirm
    \/ CloseDecline
    \/ ClosingExit
    \/ KeyboardInterrupt
    \/ FinallyAcquire
    \/ FinallyCleanup
    \/ \E i \in 1..Len(procs) : ProcBegin(i)
    \/ \E i \in 1..Len(procs) : ProcTranscribed(i)
    \/ \E i \in 1..Len(procs) : ProcTranslated(i)

Spec == Init /\ [][Next]_vars

\* Steps the threads take by themselves; the scheduler runs a thread that
\* stays able to take its next step.  Button presses, closing the window
\* and Ctrl-C are the user's and carry no fairness.
MainStep ==
    \/ StartAcquire \/ StartAlready \/ StartBegin \/ StartOpenOk
    \/ StartOpenFail \/ StopAcquire("main") \/ StopNotRecording("main")
    \/ StopBegin("main") \/ StopDeviceOk("main") \/ StopDeviceFail("main")
    \/ StopEncode("main") \/ ClosingExit \/ FinallyAcquire \/ FinallyCleanup

CaptureStep ==
    \/ CaptureTop \/ CaptureAcquire \/ CaptureRead \/ CaptureReadFail
    \/ CaptureSkip \/ StopAcquire("capture") \/ StopNotRecording("capture")
    \/ StopBegin("capture") \/ StopDeviceOk("capture")
    \/ StopDeviceFail("capture") \/ StopEncode("capture")

PipelineStep ==
    \E i \in 1..Len(procs) :
        ProcBegin(i) \/ ProcTranscribed(i) \/ ProcTranslated(i)

\* Every thread keeps running; the external calls of a pipeline return.
LiveSpec ==
    Spec /\ WF_vars(MainStep) /\ WF_vars(CaptureStep) /\ WF_vars(PipelineStep)

\* ------------------------------------------------------------------- typing
TypeOK ==
    /\ is_recording \in BOOLEAN
    /\ stream \in 0..Len(device)
    /\ exit_event \in BOOLEAN
    /\ record_lock \in Threads \cup {NoThread}
    /\ session \in 0..MaxSessions
    /\ nread \in 0..MaxReads
    /\ Len(captured) = session
    /\ \A i \in 1..Len(device) : device[i] \in {"open", "stopped", "closed"}
    /\ \A i \in 1..Len(procs) :
          procs[i].pc \in {"start", "transcribing", "translating", "done"}

\* ---------------------------------------------------------------- claim C1
\* C1: when a chunk read fails in the capture loop while Recording, the
\* capture loop's internal stop goes through: the state eventually becomes
\* Idle and the stream handle is cleared.
C1_ReadFailureStopsSession ==
    (pc["capture"] = "stop_wait") ~> (~is_recording /\ stream = None)

\* ---------------------------------------------------------------- claim C2
\* C2: a recording in which no chunk was captured never has a transcription
\* request made for it.
C2_EmptySessionNotTranscribed ==
    \A i \in 1..Len(procs) :
        captured[procs[i].session] = <<>> => ~procs[i].transcribeCalled

\* ---------------------------------------------------------------- claim C3
\* C3: in a pipeline run whose transcription raised, or returned nothing
\* usable or an empty text, no translation request is made.
C3_NoTranslationAfterFailedTranscription ==
    \A i \in 1..Len(procs) :
        procs[i].transcription \in {"raise", "malformed", "empty"}
            => ~procs[i].translateCalled

\* ---------------------------------------------------------------- claim C4
\* C4: the frame list written to the WAV buffer at a stop is exactly the
\* chunks stream.read returned during that recording, in read order; no
\* chunk of another recording is in it; and the live buffer holds the
\* chunks of the latest recording only.
C4_EncodedFramesAreSessionChunks ==
    /\ \A j \in 1..Len(encoded) :
          /\ encoded[j].frames = captured[encoded[j].session]
          /\ \A s \in 1..session :
                s # encoded[j].session =>
                   \A a \in 1..Len(captured[s]) :
                      \A b \in 1..Len(encoded[j].frames) :
                         encoded[j].frames[b] # captured[s][a]
    /\ session > 0 => frames = captured[session]

C4_Witness ==
    \E j \in 1..Len(encoded) :
        /\ encoded[j].session = 2
        /\ Len(encoded[j].frames) >= 1
        /\ Len(captured[1]) >= 1

\* ---------------------------------------------------------------- claim C5
\* C5: while start_recording runs with a recording already in progress,
\* no step changes is_recording, frames, recording_start_time or stream,
\* and the call returns reporting AlreadyRecording.
C5_StartWhileRecordingChangesNothing ==
    [][(pc["main"] = "start_check" /\ is_recording) =>
          /\ UNCHANGED <<is_recording, frames, recording_start_time, stream>>
          /\ pc'["main"] # "start_check" =>
                /\ pc'["main"] = "mainloop"
                /\ result'["main"] = "AlreadyRecording"]_vars

C5_Witness ==
    /\ result["main"] = "AlreadyRecording"
    /\ pc["main"] = "mainloop"
    /\ is_recording
    /\ stream # None
    /\ frames # <<>>

\* ---------------------------------------------------------------- claim C6
\* C6: while stop_recording runs with nothing being recorded, the state
\* stays Idle, no device is touched, nothing is encoded or dispatched, and
\* the call returns reporting NotRecording.
C6_StopWhileIdleDoesNothing ==
    [][(pc["main"] = "stop_check" /\ ~is_recording) =>
          /\ is_recording' = FALSE
          /\ UNCHANGED <<frames, stream, device, encoded>>
          /\ Len(procs') = Len(procs)
          /\ pc'["main"] # "stop_check" =>
                /\ pc'["main"] = ret["main"]
                /\ result'["main"] = "NotRecording"]_vars

C6_Witness ==
    /\ result["main"] = "NotRecording"
    /\ pc["main"] = "mainloop"
    /\ session > 0

\* ---------------------------------------------------------------- claim C7
\* The main and the capture thread keep running and the main thread gets
\* the lock it keeps finding free between the capture loop's iterations
\* (the loop sleeps outside the lock); nothing is assumed of the pipeline,
\* whose external calls may never return.
ControlSpec ==
    Spec /\ WF_vars(MainStep) /\ SF_vars(StartAcquire) /\ WF_vars(CaptureStep)

\* C7: a start_recording waiting for the lock is never kept waiting by a
\* pipeline run, only by the capture loop's critical section; issued while
\* Idle it gets the lock and takes the state to Recording, whatever the
\* pipeline runs do.
C7_StartNotBlockedByPipeline ==
    /\ [](pc["main"] = "start_wait" => record_lock \in {NoThread, "capture"})
    /\ (pc["main"] = "start_wait" /\ ~is_recording)
          ~> (pc["main"] = "start_open" /\ is_recording)

C7_Witness ==
    /\ is_recording
    /\ stream # None
    /\ \E i \in 1..Len(procs) :
          /\ procs[i].pc = "transcribing"
          /\ procs[i].session = session - 1

\* ---------------------------------------------------------------- claim C8
\* C8 as stated: no pipeline run is ever started for a recording that a
\* confirmed shutdown stopped.
C8_ShutdownNeverDispatches ==
    \A i \in 1..Len(procs) : procs[i].origin # "closing_exit"

\* C8 as amended: when the stop_recording called by a confirmed shutdown
\* has returned, the state is Idle and the stream handle is cleared; if the
\* device was stopped and closed, the recording has been encoded and one
\* pipeline run started on it, as after the Stop button; if stopping or
\* closing the device failed, no run was started for it.
C8_ShutdownStopsLikeStop ==
    pc["main"] = "closing_exit" =>
        /\ ~is_recording
        /\ stream = None
        /\ result["main"] \in {"Stopped", "StopError"}
        /\ result["main"] = "Stopped" =>
              /\ encoded # <<>>
              /\ encoded[Len(encoded)] =
                    [session |-> session, frames |-> captured[session]]
              /\ Cardinality({i \in 1..Len(procs) :
                                 procs[i].session = session}) = 1
              /\ \A i \in 1..Len(procs) :
                    procs[i].session = session =>
                       procs[i].origin = "closing_exit"
        /\ result["main"] = "StopError" =>
              \A i \in 1..Len(procs) : procs[i].session # session

C8_Witness ==
    /\ pc["main"] = "closing_exit"
    /\ result["main"] = "Stopped"
    /\ frames # <<>>
    /\ device[Len(device)] = "closed"

\* ---------------------------------------------------------------- claim C9
\* C9: once a start_recording whose p.open failed has returned, reporting
\* DeviceError, the state is Idle with no stream handle; and the capture
\* loop, inside its critical section, never finds is_recording set without
\* an open stream.
C9_FailedOpenLeavesIdle ==
    /\ (result["main"] = "DeviceError" /\ pc["main"] = "mainloop") =>
          (~is_recording /\ stream = None /\ record_lock # "main")
    /\ (pc["capture"] = "c_locked" /\ is_recording) => stream # None

C9_Witness ==
    /\ result["main"] = "DeviceError"
    /\ pc["main"] = "mainloop"
    /\ pc["capture"] = "c_locked"

\* --------------------------------------------------------------- claim C10
\* C10: once a stop_recording whose stream.stop_stream() or stream.close()
\* failed has returned, reporting the failure, the state is Idle and the
\* stream handle is cleared.
C10_FailedCloseLeavesIdle ==
    \A t \in Threads :
        (result[t] = "StopError" /\ pc[t] \in {"mainloop", "closing_exit"})
            => (~is_recording /\ stream = None /\ record_lock # t)

C10_Witness ==
    /\ result["main"] = "StopError"
    /\ pc["main"] = "mainloop"
    /\ \E h \in 1..Len(device) : device[h] # "closed"

\* --------------------------------------------------------------- claim C11
\* C11: once exit_event is set, no step reads the device (no chunk is
\* delivered and no read fails), and the capture loop ends at the top of an
\* iteration, unless the interpreter exits first and takes the daemon
\* thread with it.
C11_ShutdownEndsCaptureLoop ==
    /\ [][exit_event =>
             /\ nread' = nread
             /\ frames' = frames
             /\ result'["capture"] = result["capture"]
             /\ pc'["capture"] \in {pc["capture"], "c_top", "c_wait",
                                    "c_locked", "c_done"}]_vars
    /\ exit_event ~> (pc["capture"] = "c_done" \/ ~ProcessAlive)

C11_Witness ==
    /\ exit_event
    /\ pc["capture"] = "c_done"
    /\ nread > 0
    /\ ProcessAlive

\* --------------------------------------------------------------- claim C12
\* C12: the WAV buffer handed to a pipeline run parses back to channels 1,
\* sample width 2, rate 16000, a payload equal to the chunks read during
\* the recording concatenated in read order, and a frame count equal to the
\* payload size divided by channels times sample width.
C12_EncodeRoundTrip ==
    \A i \in 1..Len(procs) :
        procs[i].pc # "done" =>
           LET b == procs[i].audio
               fs == captured[procs[i].session]
               w == Parse(b)
           IN  /\ ~WavMalformed(b)
               /\ w.nchannels = 1
               /\ w.sampwidth = 2
               /\ w.framerate = 16000
               /\ w.payload = Join(fs)
               /\ w.nframes * (w.nchannels * w.sampwidth) = Len(Join(fs))
               /\ w.nframes = Len(fs) * ChunkFrames

C12_Witness ==
    \E i \in 1..Len(procs) :
        /\ procs[i].pc = "start"
        /\ Len(captured[procs[i].session]) = 2
        /\ Parse(procs[i].audio).payload =
              Chunk(1) \o Chunk(2)

\* --------------------------------------------------------------- claim C13
\* C13: after a read error in the capture loop the loop lets go of
\* record_lock, and a start_recording, stop_recording or cleanup of the
\* main thread waiting for the lock gets it.
C13_ReadErrorLeavesSystemUsable ==
    /\ (result["capture"] = "ReadError") ~> (record_lock # "capture")
    /\ (/\ result["capture"] = "ReadError"
        /\ pc["main"] \in {"start_wait", "stop_wait", "finally_wait"})
          ~> (record_lock = "main")

\* --------------------------------------------------------------- claim C14
\* C14: a thread about to read or write is_recording, frames or stream
\* holds record_lock.
C14_SharedStateOnlyUnderLock ==
    \A t \in Threads : pc[t] \in AccessPoints => record_lock = t

\* --------------------------------------------------------------- claim C15
\* C15 as stated: once a stop_recording that found a recording in progress
\* has returned, and until the next start, frames is empty.
C15_LiveBufferEmptyAfterStop ==
    (/\ pc["main"] \in {"mainloop", "closing_exit"}
     /\ result["main"] \in {"Stopped", "StopError"}
     /\ ~is_recording)
        => frames = <<>>

\* C15 as amended: once such a stop_recording has returned, frames still
\* holds the chunks of the recording, the very list that was encoded; it is
\* the next start_recording that empties it, inside its critical section,
\* before the device is opened.
C15_LiveBufferKeptUntilNextStart ==
    /\ (/\ pc["main"] \in {"mainloop", "closing_exit"}
        /\ result["main"] \in {"Stopped", "StopError"}
        /\ ~is_recording)
          => /\ frames = captured[session]
             /\ result["main"] = "Stopped" =>
                   encoded[Len(encoded)].frames = frames
    /\ pc["main"] = "start_open" => frames = <<>>

C15_Witness ==
    /\ pc["main"] = "mainloop"
    /\ result["main"] = "Stopped"
    /\ ~is_recording
    /\ Len(frames) >= 1
    /\ session = 1

\* --------------------------------------------------------------- claim C16
\* C16: every stream p.open returned is closed, or is still held in
\* `stream` for stop_recording or main()'s cleanup to close: the program
\* lets go of no stream it has not closed.
C16_EveryHandleReleased ==
    \A h \in 1..Len(device) : device[h] # "closed" => stream = h

\* --------------------------------------------------------------- claim C17
\* C17: no recording gets more than one pipeline run, and once a
\* stop_recording that found a recording with at least one chunk has
\* returned, whether or not stopping or closing the device failed, the
\* frames have been encoded and exactly one run started on them.
C17_EveryStopDispatchesOnce ==
    /\ \A s \in 1..session :
          Cardinality({i \in 1..Len(procs) : procs[i].session = s}) <= 1
    /\ (/\ pc["main"] \in {"mainloop", "closing_exit"}
        /\ result["main"] \in {"Stopped", "StopError"}
        /\ ~is_recording
        /\ captured[session] # <<>>)
          => /\ encoded # <<>>
             /\ encoded[Len(encoded)] =
                   [session |-> session, frames |-> captured[session]]
             /\ Cardinality({i \in 1..Len(procs) :
                                procs[i].session = session}) = 1

\* --------------------------------------------------------------- claim C18
\* C18: declining the confirmation of on_closing changes nothing: the step
\* leaves exit_event, the recording state, the stream, the buffer, the lock
\* and every thread's position as they are; afterwards the state is still
\* Recording with an open stream and exit_event clear, and a stop_recording
\* that follows finds the recording in progress.
C18_DeclinedShutdownChangesNothing ==
    /\ [][(result'["main"] = "CloseDeclined"
              /\ result["main"] # "CloseDeclined") =>
             /\ is_recording
             /\ UNCHANGED <<shared, exit_event, record_lock, pc, ret, device,
                            procs, history>>]_vars
    /\ [](result["main"] = "CloseDeclined" =>
             /\ ~exit_event
             /\ pc["main"] \in {"mainloop", "stop_check"} =>
                   (is_recording /\ stream # None
                       /\ device[stream] = "open"))

C18_Witness ==
    /\ result["main"] = "CloseDeclined"
    /\ pc["main"] = "stop_device"
    /\ ret["main"] = "mainloop"
    /\ frames # <<>>
    /\ ~exit_event

\* --------------------------------------------------------------- claim C19
\* C19: record_lock is only ever held by the main or the capture thread,
\* never by a pipeline thread; a step of a pipeline run (sending a request,
\* getting its answer) neither takes nor releases the lock; and the thread
\* that starts a run does so after leaving its critical section.
C19_NoServiceCallUnderLock ==
    /\ [](record_lock \in Threads \cup {NoThread})
    /\ [][(\E i \in 1..Len(procs) : procs'[i] # procs[i]) =>
             record_lock' = record_lock]_vars
    /\ [][Len(procs') > Len(procs) =>
             \E t \in Threads :
                pc[t] = "stop_encode" /\ record_lock # t]_vars

C19_Witness ==
    /\ \E i \in 1..Len(procs) : procs[i].pc = "translating"
    /\ \E i \in 1..Len(procs) : procs[i].pc = "transcribing"
    /\ record_lock = "capture"
    /\ pc["capture"] = "c_locked"

\* --------------------------------------------------------------- claim C20
\* C20: whenever no thread holds record_lock and main()'s cleanup has not
\* run, is_recording is set exactly when stream is a handle, and that
\* handle is an open device; after a failed start and after a failed stop
\* is_recording is clear and stream is None.
C20_RecordingIffStream ==
    (record_lock = NoThread /\ pc["main"] # "exited") =>
        /\ is_recording <=> stream # None
        /\ stream # None => device[stream] = "open"
        /\ (/\ result["main"] \in {"DeviceError", "StopError"}
            /\ pc["main"] \in {"mainloop", "closing_exit"})
              => (~is_recording /\ stream = None)

C20_Witness ==
    /\ record_lock = NoThread
    /\ pc["main"] = "mainloop"
    /\ result["main"] = "StopError"
    /\ session = 2
    /\ Len(device) = 1
    /\ ~is_recording
    /\ stream = None

====
